---- MODULE Spec2Model ----
(***************************************************************************)
(* Retrieval pipeline of the adrenaline clinical assistant: the vector     *)
(* stores (ChromaManager, MilvusManager), the NER manager, the RAG manager *)
(* that filters and ranks the retrieved notes, and the answer endpoints    *)
(* that turn the retrieved notes into LLM context.                         *)
(*                                                                         *)
(* Floats are modelled by integers (a distance d is the integer d, the     *)
(* similarity is 1 - d); an embedding is a point on a line and the         *)
(* distance of two embeddings is their absolute difference.                *)
(***************************************************************************)
EXTENDS Integers, Sequences, FiniteSets, TLC

\* ------------------------------------------------------------------ bounds
MaxPatient   == 2      \* patient ids stored in the index: 1..MaxPatient
MaxEmbedding == 1      \* embeddings are points 0..MaxEmbedding
MaxNotes     == 3      \* at most this many notes in the index
MaxTopK      == 2      \* top_k ranges over 1..MaxTopK
MaxTextLen   == 4      \* texts sent to the NER service: up to this long
MaxChunkLen  == 3      \* max_length of chunk_text ranges over 1..MaxChunkLen
MaxCalls     == 3      \* calls to the embedding service one client makes
MaxCoroutines == 2     \* concurrent search calls on one MilvusManager
MaxRequestTexts == 3   \* texts in one request to the embedding service
MaxBatchSize == 3      \* BATCH_SIZE of the embedding service: 1..MaxBatchSize
MaxSplitDepth == 2     \* nested out-of-memory splits of one batch
MaxUsers     == 2      \* users of the pages API: 1..MaxUsers
MaxPages     == 2      \* pages created through the pages API
MaxAnswers   == 2      \* entries of query_answers one page can grow to
MaxJobPatients == 2    \* patients of db.patients the ingestion job sees
MaxJobNotes  == 2      \* notes of one patient of db.patients
MaxRuns      == 2      \* runs of the ingestion job
MaxEntNotes  == 2      \* notes of db.patients the entity loader sees
MaxEntRuns   == 2      \* runs of the entity loader
MaxEhrCalls  == 4      \* calls made on one EHRDataManager
MaxSteps     == 2      \* reasoning steps the LLM answers with
MaxStreams   == 2      \* requests to the streaming endpoint

\* ------------------------------------------------------- program constants
TOP_K == 5             \* routes/answer.py TOP_K

None == -1             \* Python None for an Optional[int]
NoneDict == [None |-> TRUE]   \* Python None where a dict is expected

\* ------------------------------------------------------------- vocabulary
NoteIds == {"n1", "n2", "n3"}

\* text stored for a note
DocumentOf(n) ==
  CASE n = "n1" -> "Chest Pain treated with Aspirin"
    [] n = "n2" -> "diabetes follow-up"
    [] OTHER    -> "chest pain clinic"

QueryTexts == {"chest pain aspirin", "insulin dose"}

\* what the MedCAT model finds in a text: the pretty names of its entities
CatEntities(text) ==
  CASE text = "Chest Pain treated with Aspirin" -> {"Chest Pain", "Aspirin"}
    [] text = "diabetes follow-up"              -> {"diabetes"}
    [] text = "chest pain clinic"               -> {"chest pain"}
    [] text = "chest pain aspirin"              -> {"chest pain", "aspirin"}
    [] text = "insulin dose"                    -> {"insulin"}
    [] OTHER                                    -> {}

\* what the embedding model returns for a text
EmbeddingOf(text) ==
  CASE text = "chest pain aspirin" -> 0
    [] text = "insulin dose"       -> MaxEmbedding
    [] OTHER                       -> 0

Digits == <<"0", "1", "2", "3", "4", "5", "6", "7", "8", "9">>
\* Python str(n) and int(s) on the one-digit ids of the model
StrOf(n) == Digits[n + 1]
IntOf(s) == CHOOSE n \in 0..9 : Digits[n + 1] = s

Abs(x) == IF x < 0 THEN -x ELSE x
Min(a, b) == IF a < b THEN a ELSE b

\* Python truthiness of an Optional[int]
Truthy(p) == p # None /\ p # 0

\* ---------------------------------------------------------------- state
VARIABLES
  notes,             \* the ingested corpus: what the vector index holds
  collection,        \* ChromaManager.collection: "None" or "collection"
  milvus_collection, \* MilvusManager.collection: "None" or "Collection"
  op,                \* operation in progress: "none", "rag", "milvus", ...
  pc,                \* position inside the operation
  args,              \* arguments of the operation in progress
  query_embedding,   \* local of retrieve_relevant_notes
  queried,           \* TRUE once the operation has queried the index
  where_clause,      \* filter handed to the index by that query
  search_results,    \* local of retrieve_relevant_notes
  query_entities,    \* local of retrieve_relevant_notes (NER response dict)
  cursor,            \* position of the for loop over search_results
  filtered_results,  \* local of retrieve_relevant_notes
  result,            \* value returned by the operation
  outcome,           \* "none", "returned" or "raised"
  mode,              \* local of the answer endpoints: "patient", "general"
  context,           \* local of the answer endpoints: the note texts joined
  calls,             \* calls the endpoint has made to its collaborators
  status             \* HTTP status of the endpoint's response, 0 before it

ragVars == <<query_embedding, search_results, query_entities, cursor,
             filtered_results>>
epVars  == <<mode, context, calls, status>>

mainVars == <<notes, collection, milvus_collection, op, pc, args, queried,
              where_clause, result, outcome, ragVars, epVars>>

\* the clinical NER service (perform_ner and its chunk_text)
VARIABLES
  ner_pc,            \* "idle", "chunk_text", "pipeline" or "done"
  request_text,      \* request.text, a sequence of characters
  max_length,        \* max_length of chunk_text
  start,             \* local of chunk_text
  chunks,            \* local of chunk_text, then of perform_ner
  chunk_no,          \* position of the for loop over chunks
  found,             \* what ner_pipeline reported, per chunk (history)
  all_entities,      \* local of perform_ner
  ner_status         \* status of the response, 0 while there is none

nerVars == <<ner_pc, request_text, max_length, start, chunks, chunk_no,
             found, all_entities, ner_status>>

\* a client of the embedding service (EmbeddingManager)
VARIABLES
  emb_caller,        \* "none", "get_embeddings" (ingestion) or "get_embedding"
  emb_pc,            \* "idle", "post", "sleep" or "done"
  emb_attempts,      \* how each attempt of the call in hand ended
  emb_outcome,       \* "none", "returned" or "raised"
  emb_calls          \* calls this client has finished

retryVars == <<emb_caller, emb_pc, emb_attempts, emb_outcome, emb_calls>>

\* concurrent searches on one MilvusManager, and the index they search
VARIABLES
  index_metric,      \* metric_type the index was created with, or "none"
  loaded,            \* TRUE once a load of the collection has completed
  handles,           \* Collection handles constructed by get_collection
  co_pc,             \* per search call: "idle", "load" or "done"
  co_args,           \* per search call: its arguments
  co_collection,     \* per search call: the handle it holds (0: none)
  co_loaded,         \* per search call: its own load has completed
  co_metric,         \* per search call: metric_type it searched with
  co_result,         \* per search call: the list returned
  co_outcome         \* per search call: "none", "returned" or "raised"

milvusVars == <<index_metric, loaded, handles, co_pc, co_args, co_collection,
                co_loaded, co_metric, co_result, co_outcome>>

\* the embedding service (create_embeddings and its process_batch)
VARIABLES
  batch_size,        \* BATCH_SIZE, read from the environment at import
  model_loaded,      \* FALSE while model and tokenizer are None
  srv_pc,            \* "idle", "batching" or "done"
  req_texts,         \* request.texts
  batch_i,           \* i of the for loop over the batches
  all_embeddings,    \* local of create_embeddings
  splits,            \* out-of-memory splits made for this request (history)
  recursed,          \* <<len(parent), len(child)>> of the recursive calls of
                     \* process_batch made for this request (history)
  srv_status         \* status of the response, 0 while there is none

embedVars == <<batch_size, model_loaded, srv_pc, req_texts, batch_i,
               all_embeddings, splits, recursed, srv_status>>

\* the pages API over the pages collection of the database
VARIABLES
  pages,             \* db.pages: the documents, in insertion order
  next_oid,          \* the next ObjectId the generator hands out
  pg_last            \* the request served last and its response

pageVars == <<pages, next_oid, pg_last>>

\* the ingestion job (scripts/load_note_embeddings.py) over db.patients and
\* the Milvus collection
VARIABLES
  patients_collection, \* db.patients: patient_id -> [notes, processed]
  vectors,             \* rows of the Milvus collection: <<patient_id, note>>
  recreate_collection, \* the --recreate flag of the run
  job_pc,              \* "idle", "cursor", "batch", "mark", "done"
  job_cursor,          \* patient ids the cursor has still to yield
  job_patient,         \* the patient in hand, 0 for none
  job_i,               \* the loop variable i of the batch loop
  patients_processed,
  job_errors,          \* <<patient_id, i>> of each batch logged by the
                       \* except branch of process_batch
  runs                 \* runs of the job started so far

jobVars == <<patients_collection, vectors, recreate_collection, job_pc,
             job_cursor, job_patient, job_i, patients_processed, job_errors,
             runs>>

\* the entity loader (scripts/load_entities.py) over the notes of db.patients
VARIABLES
  stored_entities,   \* notes.entities of each note: [exists, entities]
  ent_pc,            \* "idle", "loop", "done"
  ent_recreate,      \* the recreate flag of the run
  all_notes,         \* what get_all_notes returned
  ent_i,             \* the loop variable i
  ner_calls,         \* note ids POSTed to the NER service, in order
  db_updates,        \* note ids update_note_with_entities was called for
  progress,          \* the progress.update calls: [note_id, description]
  ent_runs           \* runs of the loader started so far

entVars == <<stored_entities, ent_pc, ent_recreate, all_notes, ent_i,
             ner_calls, db_updates, progress, ent_runs>>

\* one EHRDataManager (api/patients/ehr.py)
VARIABLES
  lazy_df,           \* self.lazy_df: NoFrame for None, or the frame's columns
  ehr_log,           \* what the manager logged, in order
  ehr_last,          \* the call made last and what it raised
  ehr_calls          \* calls made so far

ehrVars == <<lazy_df, ehr_log, ehr_last, ehr_calls>>

\* the event stream of POST /generate_cot_answer (routes/patients.py); its
\* pages go to the pages collection above
VARIABLES
  stream_pc,         \* the call event_stream awaits, "idle" or "closed"
  stream_query,      \* query.patient_id of the request, None for none
  stream_steps,      \* steps, as generate_cot_steps returned them
  stream_i,          \* steps yielded so far
  events,            \* the events yielded on the stream: [type, content]
  stream_failed,     \* the awaited call that raised, "none" for none
  streams            \* requests made so far

streamVars == <<stream_pc, stream_query, stream_steps, stream_i, events,
                stream_failed, streams>>

earlyVars == <<nerVars, retryVars, milvusVars, embedVars>>
lateVars == <<pageVars, jobVars, entVars, ehrVars, streamVars>>
auxVars == <<earlyVars, lateVars>>

\* what the steps of each service leave alone
pagesFrame == <<earlyVars, jobVars, entVars, ehrVars, streamVars>>
jobFrame == <<earlyVars, pageVars, entVars, ehrVars, streamVars>>
entFrame == <<earlyVars, pageVars, jobVars, ehrVars, streamVars>>
ehrFrame == <<earlyVars, pageVars, jobVars, entVars, streamVars>>
streamFrame == <<earlyVars, jobVars, entVars, ehrVars, pg_last>>
answerFrame == <<streamFrame, streamVars, next_oid>>

vars == <<mainVars, auxVars>>

\* ------------------------------------------------------------ sequences
\* Python s[:k] for k >= 0
TakeAll(s, k) == s
Take(s, k) == SubSeq(s, 1, Min(k, Len(s)))

\* position of element i in list.sort(key=..., reverse=True): Python's sort
\* is stable, also with reverse=True
RankDesc(keys, i) ==
  1 + Cardinality({j \in 1..Len(keys) : keys[j] > keys[i]})
    + Cardinality({j \in 1..Len(keys) : j < i /\ keys[j] = keys[i]})

\* s.sort(key=..., reverse=True) where keys[i] is the key of s[i]
SortDesc(s, keys) ==
  [r \in 1..Len(s) |-> s[CHOOSE i \in 1..Len(s) : RankDesc(keys, i) = r]]

\* all orders in which a set can be listed with a non-decreasing key
\* (key is a function on S)
OrderedBy(S, key) ==
  {s \in [1..Cardinality(S) -> S] :
      /\ \A i, j \in 1..Cardinality(S) : i # j => s[i] # s[j]
      /\ \A i, j \in 1..Cardinality(S) : i < j => key[s[i]] <= key[s[j]]}

\* ------------------------------------------------------------ the index
\* a row of the Chroma collection for a corpus note
ChromaRow(n) ==
  [metadata  |-> [patient_id |-> StrOf(n.patient_id)],
   embedding |-> n.embedding,
   document  |-> DocumentOf(n.note_id)]

Distance(row, query_vector) == Abs(row.embedding - query_vector)

\* collection.query(query_embeddings, n_results, where): the rows passing
\* the where filter, nearest first, at most n_results of them; rows at the
\* same distance come in an order the index chooses
ChromaQuery(query_vector, n_results, where) ==
  LET rows    == {ChromaRow(n) : n \in notes}
      matched == IF where = NoneDict THEN rows
                 ELSE {r \in rows : r.metadata.patient_id = where.patient_id}
      D       == [r \in matched |-> Distance(r, query_vector)]
  IN  {Take(s, n_results) : s \in OrderedBy(matched, D)}


\* ------------------------------------------------------- ChromaManager
\* the where clause ChromaManager.search builds for a patient id
WhereClauseUnscoped(patient_id) == NoneDict
WhereClause(patient_id) ==
  IF Truthy(patient_id) THEN [patient_id |-> StrOf(patient_id)] ELSE NoneDict

\* the result dicts built from the rows of a query, most similar first
SearchResultsRaw(rows, query_vector) ==
  LET converted == [i \in 1..Len(rows) |->
                      [patient_id |-> IntOf(rows[i].metadata.patient_id),
                       note_text  |-> rows[i].document,
                       distance   |-> Distance(rows[i], query_vector)]]
  IN  SortDesc(converted, [i \in 1..Len(rows) |-> converted[i].distance])
SearchResults(rows, query_vector) ==
  LET converted == [i \in 1..Len(rows) |->
                      [patient_id |-> IntOf(rows[i].metadata.patient_id),
                       note_text  |-> rows[i].document,
                       distance   |-> 1 - Distance(rows[i], query_vector)]]
  IN  SortDesc(converted, [i \in 1..Len(rows) |-> converted[i].distance])

\* the lists ChromaManager.search can return once the collection is there
ChromaManager_search(query_vector, patient_id, top_k) ==
  {SearchResults(rows, query_vector) :
     rows \in ChromaQuery(query_vector, top_k, WhereClause(patient_id))}

\* ----------------------------------------------------------- NER service
\* JSON body of the NER service's /extract_entities response, which is what
\* NERManager.extract_entities returns
extract_entities(text) == [text |-> text, entities |-> CatEntities(text)]

\* set(query_entities.keys()) & set(note_entities.keys())
matching_entities_of(q_entities, n_entities) ==
  (DOMAIN q_entities) \cap (DOMAIN n_entities)

\* filtered_results.sort(key=len(matching_entities), reverse=True)
SortByMatching(fr) ==
  SortDesc(fr, [i \in 1..Len(fr) |-> Cardinality(fr[i].matching_entities)])

\* -------------------------------------------------------------- requests
RequestPatientIds == {None} \cup (0..MaxPatient)
TopKs == 1..MaxTopK

NoArgs == [user_query |-> "", patient_id |-> None, top_k |-> 0]

Idle ==
  /\ op = "none" /\ pc = "idle" /\ args = NoArgs
  /\ query_embedding = None /\ queried = FALSE /\ where_clause = NoneDict
  /\ search_results = <<>> /\ query_entities = NoneDict /\ cursor = 0
  /\ filtered_results = <<>> /\ result = <<>> /\ outcome = "none"
  /\ mode = "" /\ context = <<>> /\ calls = <<>> /\ status = 0

\* the corpora the ingestion job can have left in the index
Corpora ==
  {c \in SUBSET [patient_id : 1..MaxPatient, note_id : NoteIds,
                 embedding : 0..MaxEmbedding] : Cardinality(c) <= MaxNotes}

\* the NER service between two requests
NerIdle ==
  /\ ner_pc = "idle" /\ request_text = <<>> /\ max_length = 0 /\ start = 0
  /\ chunks = <<>> /\ chunk_no = 0 /\ found = <<>> /\ all_entities = <<>>
  /\ ner_status = 0

\* an EmbeddingManager that has made no call yet
RetryIdle ==
  /\ emb_caller = "none" /\ emb_pc = "idle" /\ emb_attempts = <<>>
  /\ emb_outcome = "none" /\ emb_calls = 0

Coroutines == 1..MaxCoroutines

\* no index yet, a MilvusManager with self.collection = None, no search
MilvusIdle ==
  /\ index_metric = "none" /\ loaded = FALSE /\ handles = 0
  /\ co_pc = [c \in Coroutines |-> "idle"]
  /\ co_args = [c \in Coroutines |-> NoArgs]
  /\ co_collection = [c \in Coroutines |-> 0]
  /\ co_loaded = [c \in Coroutines |-> FALSE]
  /\ co_metric = [c \in Coroutines |-> "none"]
  /\ co_result = [c \in Coroutines |-> <<>>]
  /\ co_outcome = [c \in Coroutines |-> "none"]

BATCH_SIZE == 4

\* the embedding service before its startup hook, no request in hand
EmbedIdle ==
  /\ model_loaded = FALSE /\ srv_pc = "idle" /\ req_texts = <<>>
  /\ batch_i = 0 /\ all_embeddings = <<>> /\ splits = 0 /\ recursed = {}
  /\ srv_status = 0

NoRequest == [op |-> "none", user |-> 0, page_id |-> "", status |-> 0,
              body |-> <<>>]

\* no request to the pages API yet
PagesIdle == pg_last = NoRequest

\* an empty pages collection
NoPages == pages = <<>> /\ next_oid = 1

JobPatients == 1..MaxJobPatients

\* the job not started, nothing in the Milvus collection
JobIdle ==
  /\ vectors = {} /\ recreate_collection = FALSE /\ job_pc = "idle"
  /\ job_cursor = <<>> /\ job_patient = 0 /\ job_i = 0
  /\ patients_processed = 0 /\ job_errors = {} /\ runs = 0

\* db.patients with no notes loaded for any patient
NoPatients ==
  patients_collection =
    [p \in JobPatients |-> [notes |-> 0, processed |-> FALSE]]

EntNotes == 1..MaxEntNotes

\* a note the NER service was never run on has no entities field
NoField == [exists |-> FALSE, entities |-> <<>>]

\* the loader not started, no note with an entities field
EntIdle ==
  /\ stored_entities = [n \in EntNotes |-> NoField]
  /\ ent_pc = "idle" /\ ent_recreate = FALSE /\ all_notes = <<>>
  /\ ent_i = 0 /\ ner_calls = <<>> /\ db_updates = <<>>
  /\ progress = <<>> /\ ent_runs = 0

\* self.lazy_df = None
NoFrame == [frame |-> FALSE, columns |-> {}]

NoCall == [op |-> "none", arg |-> "", raised |-> "none"]

\* EHRDataManager.__init__
EhrIdle ==
  lazy_df = NoFrame /\ ehr_log = <<>> /\ ehr_last = NoCall /\ ehr_calls = 0

\* no request to the streaming endpoint yet
StreamIdle ==
  /\ stream_pc = "idle" /\ stream_query = None /\ stream_steps = <<>>
  /\ stream_i = 0 /\ events = <<>> /\ stream_failed = "none"
  /\ streams = 0

ServicesIdle ==
  /\ NerIdle /\ RetryIdle /\ MilvusIdle /\ EmbedIdle /\ PagesIdle
  /\ JobIdle /\ EntIdle /\ EhrIdle /\ StreamIdle

AuxIdle == ServicesIdle /\ batch_size = BATCH_SIZE /\ NoPatients /\ NoPages

\* ---------------------------------------------------------------- db.pages
Users == 1..MaxUsers
Queries == {"chest pain aspirin"}
AnswerTexts == {"aspirin"}

\* the ids a client can put in the path: the string of any ObjectId the
\* generator has handed out or will hand out
PathIds == {StrOf(n) : n \in 1..(2 * MaxPages)}

\* ObjectId(s) of a well-formed s, and str(oid)
ObjectId(s) == IntOf(s)

\* whether a document passes an equality filter of find / find_one /
\* update_one
MatchesAnyUser(doc, filter) ==
  \A k \in DOMAIN filter \ {"user_id"} : doc[k] = filter[k]
Matches(doc, filter) == \A k \in DOMAIN filter : doc[k] = filter[k]

\* positions of the documents passing the filter
Find(filter) == {i \in 1..Len(pages) : Matches(pages[i], filter)}

\* db.pages.find_one(filter): position of the first match, 0 for None
find_one(filter) ==
  IF Find(filter) = {} THEN 0
  ELSE CHOOSE i \in Find(filter) : \A j \in Find(filter) : i <= j

\* the user the answer endpoints are called by
current_user == 1

\* the document POST /pages/create inserts first
FreshPage(u, q) ==
  [_id |-> 2, id |-> StrOf(1), user_id |-> StrOf(u),
   query_answers |-> <<[query |-> [query |-> q, page_id |-> StrOf(1)],
                        is_first |-> TRUE]>>]

\* db.pages as the answer endpoints can find it: one page made by POST
\* /pages/create, for the current user or for another one
StoredPages == {<<FreshPage(u, q)>> : u \in Users, q \in Queries}

\* $set of query_answers.$[elem].query.steps, and of
\* query_answers.$[elem].answer by the answer endpoint, on the elements
\* passing the array filter elem.query.query == query.query
SetFields(doc, endpoint, user_query) ==
  LET SetElem(elem) ==
        LET with_steps ==
              [elem EXCEPT !.query = [steps |-> "steps"] @@ elem.query]
        IN  IF endpoint = "generate_cot_answer"
            THEN [answer |-> "answer"] @@ with_steps
            ELSE with_steps
  IN  [doc EXCEPT !.query_answers =
         [k \in 1..Len(doc.query_answers) |->
            IF doc.query_answers[k].query.query = user_query
            THEN SetElem(doc.query_answers[k])
            ELSE doc.query_answers[k]]]

\* the current user's page after both endpoints have served its query
AnsweredPage ==
  SetFields(FreshPage(current_user, "chest pain aspirin"),
            "generate_cot_answer", "chest pain aspirin")


Init ==
  /\ notes \in Corpora
  /\ collection = "None"
  /\ milvus_collection = "None"
  /\ Idle
  /\ ServicesIdle
  /\ batch_size = BATCH_SIZE
  /\ NoPatients
  /\ pages = <<AnsweredPage>>
  /\ next_oid = 3

\* the services started over an index nothing was ingested into yet
InitServices ==
  /\ notes = {}
  /\ collection = "None"
  /\ milvus_collection = "None"
  /\ Idle
  /\ AuxIdle

\* ChromaManager.connect
Connect ==
  /\ op = "none"
  /\ collection = "None"
  /\ collection' = "collection"
  /\ UNCHANGED <<auxVars, notes, milvus_collection, op, pc, args, queried,
                 where_clause, result, outcome, ragVars, epVars>>

\* an exception leaves the operation
Raise ==
  /\ pc' = "done"
  /\ outcome' = "raised"
  /\ result' = <<>>

\* --------------------------------------- RAGManager.retrieve_relevant_notes
RAG_Call ==
  /\ op = "none"
  /\ \E q \in QueryTexts, p \in RequestPatientIds, k \in TopKs :
       args' = [user_query |-> q, patient_id |-> p, top_k |-> k]
  /\ op' = "rag"
  /\ pc' = "get_embedding"
  /\ UNCHANGED <<auxVars, notes, collection, milvus_collection, queried,
                 where_clause, result, outcome, ragVars, epVars>>

\* query_embedding = await self.embedding_manager.get_embedding(user_query)
RAG_GetEmbedding ==
  /\ op = "rag" /\ pc = "get_embedding"
  /\ \/ /\ query_embedding' = EmbeddingOf(args.user_query)
        /\ pc' = "search"
        /\ UNCHANGED <<result, outcome>>
     \/ /\ Raise                      \* raise_for_status / request error
        /\ UNCHANGED query_embedding
  /\ UNCHANGED <<auxVars, notes, collection, milvus_collection, op, args, queried,
                 where_clause, search_results, query_entities, cursor,
                 filtered_results, epVars>>

\* search_results = await self.chroma_manager.search(query_embedding,
\*                                                    patient_id, top_k)
RAG_Search ==
  /\ op = "rag" /\ pc = "search"
  /\ IF collection = "None"
     THEN /\ Raise                    \* RuntimeError: not initialized
          /\ UNCHANGED <<queried, where_clause, search_results>>
     ELSE /\ queried' = TRUE
          /\ where_clause' = WhereClause(args.patient_id)
          /\ \/ /\ search_results' \in
                      ChromaManager_search(query_embedding, args.patient_id,
                                           args.top_k)
                /\ pc' = "query_ner"
                /\ UNCHANGED <<result, outcome>>
             \/ /\ Raise              \* the query failed: logged, re-raised
                /\ UNCHANGED search_results
  /\ UNCHANGED <<auxVars, notes, collection, milvus_collection, op, args,
                 query_embedding, query_entities, cursor, filtered_results,
                 epVars>>

\* query_entities = await self.ner_manager.extract_entities(user_query)
RAG_ExtractQuery ==
  /\ op = "rag" /\ pc = "query_ner"
  /\ \/ /\ query_entities' = extract_entities(args.user_query)
        /\ cursor' = 1
        /\ pc' = "note_ner"
        /\ UNCHANGED <<result, outcome>>
     \/ /\ Raise                      \* HTTP error or timeout of the service
        /\ UNCHANGED <<query_entities, cursor>>
  /\ UNCHANGED <<auxVars, notes, collection, milvus_collection, op, args,
                 query_embedding, queried, where_clause, search_results,
                 filtered_results, epVars>>

\* one iteration of: for result in search_results
RAG_ExtractNote ==
  /\ op = "rag" /\ pc = "note_ner"
  /\ cursor <= Len(search_results)
  /\ \/ LET note_entities == extract_entities(search_results[cursor].note_text)
            matching == matching_entities_of(query_entities, note_entities)
        IN  /\ filtered_results' =
                 IF matching # {}
                 THEN Append(filtered_results,
                             [patient_id |-> search_results[cursor].patient_id,
                              note_text  |-> search_results[cursor].note_text,
                              distance   |-> search_results[cursor].distance,
                              matching_entities |-> matching])
                 ELSE filtered_results
            /\ cursor' = cursor + 1
            /\ UNCHANGED <<pc, result, outcome>>
     \/ /\ Raise                      \* HTTP error or timeout of the service
        /\ UNCHANGED <<filtered_results, cursor>>
  /\ UNCHANGED <<auxVars, notes, collection, milvus_collection, op, args,
                 query_embedding, queried, where_clause, search_results,
                 query_entities, epVars>>

\* the call the coroutine of retrieve_relevant_notes is suspended in: each
\* stage is awaited, so between two steps exactly one call is in flight
\* (none once the loop is over and the list is sorted and returned)
InFlight ==
  IF op = "rag" /\ pc \in {"get_embedding", "search", "query_ner"} THEN pc
  ELSE IF op = "rag" /\ pc = "note_ner" /\ cursor <= Len(search_results)
       THEN "note_ner"
       ELSE "none"

\* the request is cancelled (client disconnect): CancelledError is raised at
\* the await the coroutine is suspended in, which cancels the awaited HTTP
\* request; nothing in retrieve_relevant_notes catches it
CancelSwallowed ==
  /\ InFlight # "none" /\ outcome = "none"
  /\ outcome' = "cancelled"
  /\ UNCHANGED <<auxVars, notes, collection, milvus_collection, op, pc, args, queried,
                 where_clause, result, ragVars, epVars>>
Cancel ==
  /\ InFlight # "none" /\ outcome = "none"
  /\ outcome' = "cancelled"
  /\ pc' = "done"
  /\ UNCHANGED <<auxVars, notes, collection, milvus_collection, op, args, queried,
                 where_clause, result, ragVars, epVars>>

\* sort by the number of matching entities, return filtered_results[:top_k]
RAG_ReturnEarly ==
  /\ op = "rag" /\ pc = "note_ner"
  /\ result' = Take(SortByMatching(filtered_results), args.top_k)
  /\ outcome' = "returned"
  /\ pc' = "done"
  /\ UNCHANGED <<auxVars, notes, collection, milvus_collection, op, args, queried,
                 where_clause, ragVars, epVars>>
RAG_Return ==
  /\ op = "rag" /\ pc = "note_ner"
  /\ cursor > Len(search_results)
  /\ result' = Take(SortByMatching(filtered_results), args.top_k)
  /\ outcome' = "returned"
  /\ pc' = "done"
  /\ UNCHANGED <<auxVars, notes, collection, milvus_collection, op, args, queried,
                 where_clause, ragVars, epVars>>

\* ----------------------------------------------------- MilvusManager.search
\* a row of the Milvus collection for a corpus note
MilvusRow(n) ==
  [patient_id |-> n.patient_id, note_id |-> n.note_id,
   embedding |-> n.embedding]

\* collection.search(data, anns_field, param, limit, output_fields) with the
\* L2 metric and no filter expression: the nearest rows of the whole
\* collection, nearest first
MilvusManager_search(query_vector, top_k) ==
  LET rows == {MilvusRow(n) : n \in notes}
      D    == [r \in rows |-> Distance(r, query_vector)]
  IN  {[i \in 1..Len(hits) |->
          [patient_id |-> hits[i].patient_id,
           note_id    |-> hits[i].note_id,
           distance   |-> D[hits[i]]]] :
       hits \in {Take(s, top_k) : s \in OrderedBy(rows, D)}}

\* search takes no patient: args.patient_id is the patient of the request
\* the caller serves, which search never sees
MILVUS_Search ==
  /\ op = "none"
  /\ \E q \in QueryTexts, p \in RequestPatientIds, k \in TopKs :
       /\ args' = [user_query |-> q, patient_id |-> p, top_k |-> k]
       /\ \/ /\ result' \in MilvusManager_search(EmbeddingOf(q), k)
             /\ outcome' = "returned"
          \/ /\ result' = <<>>
             /\ outcome' = "raised"       \* load or search failed
  /\ op' = "milvus"
  /\ pc' = "done"
  /\ milvus_collection' = "Collection"    \* get_collection
  /\ queried' = TRUE
  /\ where_clause' = NoneDict
  /\ UNCHANGED <<auxVars, notes, collection, ragVars, epVars>>

\* ------------------------------------------ module-level retrieve_relevant_notes
\* what the function can return; {} when the collection is not initialized
\* (it raises then, as it does when the embedding or the query fails)
retrieve_relevant_notes(user_query, patient_id, top_k) ==
  IF collection = "None" THEN {}
  ELSE ChromaManager_search(EmbeddingOf(user_query), patient_id, top_k)

\* ------------------------------------------------------- answer endpoints
Endpoints == {"generate_cot_steps", "generate_cot_answer"}
\* no page id, the id of the stored page, an id no page has
PageIds == {"", StrOf(1), StrOf(3)}

Call(svc) == [svc |-> svc, mode |-> mode]

\* the handler raised: ValueError -> 400, HTTPException(404) -> 404,
\* anything else -> 500
Respond(code) ==
  /\ status' = code
  /\ outcome' = IF code = 200 THEN "returned" ELSE "raised"
  /\ pc' = "done"

EP_Call ==
  /\ op = "none"
  /\ \E e \in Endpoints, q \in QueryTexts \cup {""}, g \in PageIds,
        p \in RequestPatientIds, st \in BOOLEAN :
       /\ e = "generate_cot_steps" => ~st
       /\ op' = e
       /\ args' = [user_query |-> q, page_id |-> g, patient_id |-> p,
                   steps |-> st]
  /\ pc' = "validate"
  /\ UNCHANGED <<auxVars, notes, collection, milvus_collection, queried, where_clause,
                 result, outcome, ragVars, epVars>>

\* the two checks, then mode = "patient" if query.patient_id else "general"
ModeOf(patient_id) == IF Truthy(patient_id) THEN "patient" ELSE "general"

AfterContext ==
  IF op = "generate_cot_answer" /\ args.steps THEN "generate_answer"
  ELSE "generate_steps"

\* the except clauses of the two handlers: the status of the response
except_converts(exception) == IF exception = "ValueError" THEN 400 ELSE 500
except_clauses(exception) ==
  CASE exception = "ValueError"    -> 400
    [] exception = "HTTPException" -> 404
    [] OTHER                       -> 500

EP_Validate ==
  /\ op \in Endpoints /\ pc = "validate"
  /\ IF args.user_query = "" \/ args.page_id = ""
     THEN /\ Respond(except_clauses("ValueError"))
          /\ UNCHANGED <<mode, context>>
     ELSE /\ mode' = ModeOf(args.patient_id)
          /\ context' = <<>>
          /\ pc' = IF mode' = "patient" THEN "retrieve" ELSE AfterContext
          /\ UNCHANGED <<status, outcome>>
  /\ UNCHANGED <<auxVars, notes, collection, milvus_collection, op, args, queried,
                 where_clause, result, ragVars, calls>>

\* relevant_notes = await retrieve_relevant_notes(...); context = "\n".join(...)
EP_Retrieve ==
  /\ op \in Endpoints /\ pc = "retrieve"
  /\ calls' = Append(calls, Call("retrieve_relevant_notes"))
  /\ \/ \E relevant_notes \in
             retrieve_relevant_notes(args.user_query, args.patient_id, TOP_K) :
          /\ result' = relevant_notes
          /\ context' = [i \in 1..Len(relevant_notes) |->
                           relevant_notes[i].note_text]
          /\ queried' = TRUE
          /\ where_clause' = WhereClause(args.patient_id)
          /\ pc' = AfterContext
          /\ UNCHANGED <<status, outcome>>
     \/ /\ Respond(500)
        /\ UNCHANGED <<result, context, queried, where_clause>>
  /\ UNCHANGED <<auxVars, notes, collection, milvus_collection, op, args, ragVars,
                 mode>>

\* steps = await generate_cot_steps(user_query, mode, context)
EP_GenerateSteps ==
  /\ op \in Endpoints /\ pc = "generate_steps"
  /\ calls' = Append(calls, Call("generate_cot_steps"))
  /\ \/ /\ pc' = IF op = "generate_cot_answer" THEN "generate_answer"
                 ELSE "find_page"
        /\ UNCHANGED <<status, outcome>>
     \/ Respond(400)                 \* the LLM output does not parse
     \/ Respond(500)                 \* the chain failed
  /\ UNCHANGED <<auxVars, notes, collection, milvus_collection, op, args, queried,
                 where_clause, result, ragVars, mode, context>>

\* answer, reasoning = await generate_cot_answer(user_query, steps, mode, context)
EP_GenerateAnswer ==
  /\ op = "generate_cot_answer" /\ pc = "generate_answer"
  /\ calls' = Append(calls, Call("generate_cot_answer"))
  /\ \/ /\ pc' = "find_page"
        /\ UNCHANGED <<status, outcome>>
     \/ Respond(400)
     \/ Respond(500)
  /\ UNCHANGED <<auxVars, notes, collection, milvus_collection, op, args, queried,
                 where_clause, result, ragVars, mode, context>>

\* page = await db.pages.find_one({"id": page_id, "user_id": user})
EP_FindPage ==
  /\ op \in Endpoints /\ pc = "find_page"
  /\ calls' = Append(calls, Call("find_one"))
  /\ \/ LET page == find_one([id |-> args.page_id,
                              user_id |-> StrOf(current_user)])
        IN  /\ pc' = IF page = 0 THEN "not_found" ELSE "update_page"
            /\ UNCHANGED <<status, outcome>>
     \/ Respond(except_clauses("Exception"))    \* the database failed
  /\ UNCHANGED <<auxVars, notes, collection, milvus_collection, op, args, queried,
                 where_clause, result, ragVars, mode, context>>

\* if not page: raise HTTPException(status_code=404, ...)
EP_NotFound ==
  /\ op \in Endpoints /\ pc = "not_found"
  /\ Respond(except_clauses("HTTPException"))
  /\ UNCHANGED <<auxVars, notes, collection, milvus_collection, op, args, queried,
                 where_clause, result, ragVars, mode, context, calls>>

\* await db.pages.update_one({"_id": page["_id"]}, ...); return the steps /
\* the answer
EP_UpdatePage ==
  /\ op \in Endpoints /\ pc = "update_page"
  /\ calls' = Append(calls, Call("update_one"))
  /\ \/ LET page == find_one([id |-> args.page_id,
                              user_id |-> StrOf(current_user)])
            target == find_one([_id |-> pages[page]._id])
        IN  /\ pages' = [pages EXCEPT ![target] =
                           SetFields(@, op, args.user_query)]
            /\ Respond(200)
     \/ /\ Respond(except_clauses("Exception"))
        /\ UNCHANGED pages
  /\ UNCHANGED <<answerFrame, notes, collection, milvus_collection, op,
                 args, queried,
                 where_clause, result, ragVars, mode, context>>

\* the caller has the result (or the exception); the locals are gone
Complete ==
  /\ pc = "done"
  /\ op' = "none" /\ pc' = "idle" /\ args' = NoArgs
  /\ query_embedding' = None /\ queried' = FALSE /\ where_clause' = NoneDict
  /\ search_results' = <<>> /\ query_entities' = NoneDict /\ cursor' = 0
  /\ filtered_results' = <<>> /\ result' = <<>> /\ outcome' = "none"
  /\ mode' = "" /\ context' = <<>> /\ calls' = <<>> /\ status' = 0
  /\ UNCHANGED <<auxVars, notes, collection, milvus_collection>>

Next ==
  \/ Connect
  \/ RAG_Call
  \/ RAG_GetEmbedding
  \/ RAG_Search
  \/ RAG_ExtractQuery
  \/ RAG_ExtractNote
  \/ RAG_Return
  \/ Cancel
  \/ MILVUS_Search
  \/ EP_Call
  \/ EP_Validate
  \/ EP_Retrieve
  \/ EP_GenerateSteps
  \/ EP_GenerateAnswer
  \/ EP_FindPage
  \/ EP_NotFound
  \/ EP_UpdatePage
  \/ Complete

Spec == Init /\ [][Next]_vars

\* the answer endpoints alone, over an empty index and a page no endpoint
\* has served yet
InitAnswer ==
  /\ notes = {}
  /\ collection = "None"
  /\ milvus_collection = "None"
  /\ Idle
  /\ ServicesIdle
  /\ batch_size = BATCH_SIZE
  /\ NoPatients
  /\ pages \in StoredPages
  /\ next_oid = 3

NextAnswer ==
  \/ EP_Call
  \/ EP_Validate
  \/ EP_Retrieve
  \/ EP_GenerateSteps
  \/ EP_GenerateAnswer
  \/ EP_FindPage
  \/ EP_NotFound
  \/ EP_UpdatePage
  \/ Complete

SpecAnswer == InitAnswer /\ [][NextAnswer]_vars

\* ============================================================ NER service
\* texts are sequences of characters; a letter, a space and a period are
\* the characters chunk_text tells apart
Alphabet == {"a", " ", "."}
Texts == UNION {[1..n -> Alphabet] : n \in 0..MaxTextLen}

SetMax(S) == CHOOSE x \in S : \A y \in S : y <= x
Max(a, b) == IF a > b THEN a ELSE b

\* s[a:b] of Python for 0 <= a (indices from 0, b exclusive, clipped)
Slice(s, a, b) == SubSeq(s, a + 1, Min(b, Len(s)))

\* s.rfind(ch, a, b): the highest index in [a, b) holding ch, or -1
rfind(s, ch, a, b) ==
  LET hits == {i \in a..(Min(b, Len(s)) - 1) : s[i + 1] = ch}
  IN  IF hits = {} THEN -1 ELSE SetMax(hits)

\* where chunk_text cuts a window [start, end) that does not reach the end
\* of the text: at its last period or space, unless there is none after the
\* first character
chunk_end_fixed(s, a, b) == b
chunk_end_unguarded(s, a, b) ==
  LET chunk_end == Max(rfind(s, ".", a, b), rfind(s, " ", a, b))
  IN  IF chunk_end = -1 THEN b ELSE chunk_end
chunk_end_of(s, a, b) ==
  LET last_period == rfind(s, ".", a, b)
      last_space  == rfind(s, " ", a, b)
      chunk_end   == Max(last_period, last_space)
  IN  IF chunk_end = -1 \/ chunk_end <= a THEN b ELSE chunk_end

\* what ner_pipeline can report for a chunk: nothing, or one entity with
\* its chunk-local span and the characters of that span
PipelineResults(chunk) ==
  {<<>>} \cup
  {<<[start |-> span[1], end |-> span[2],
      word |-> Slice(chunk, span[1], span[2])]>> :
     span \in {sp \in (0..Len(chunk)) \X (0..Len(chunk)) : sp[1] < sp[2]}}

\* the Entity perform_ner builds from a pipeline result of a chunk
EntityLocal(r, offset) ==
  [start |-> r.start, end |-> r.end, word |-> r.word]
EntityOf(r, offset) ==
  [start |-> r.start + offset, end |-> r.end + offset, word |-> r.word]

\* POST /ner arrives; perform_ner calls chunk_text
NER_Request ==
  /\ ner_pc = "idle"
  /\ \E t \in Texts, m \in 1..MaxChunkLen :
       /\ request_text' = t
       /\ max_length' = m
  /\ ner_pc' = "chunk_text"
  /\ start' = 0
  /\ chunks' = <<>>
  /\ UNCHANGED <<mainVars, lateVars, retryVars, milvusVars, embedVars, chunk_no, found, all_entities, ner_status>>

\* one iteration of: while start < len(text)
chunk_text_step ==
  /\ ner_pc = "chunk_text"
  /\ IF start < Len(request_text)
     THEN LET end == start + max_length
          IN  IF end >= Len(request_text)
              THEN /\ chunks' = Append(chunks,
                          <<Slice(request_text, start, Len(request_text)),
                            start>>)
                   /\ ner_pc' = "pipeline"          \* break, return chunks
                   /\ chunk_no' = 1
                   /\ UNCHANGED start
              ELSE LET chunk_end == chunk_end_of(request_text, start, end)
                   IN  /\ chunks' = Append(chunks,
                              <<Slice(request_text, start, chunk_end), start>>)
                       /\ start' = chunk_end
                       /\ UNCHANGED <<ner_pc, chunk_no>>
     ELSE /\ ner_pc' = "pipeline"                   \* return chunks
          /\ chunk_no' = 1
          /\ UNCHANGED <<start, chunks>>
  /\ UNCHANGED <<mainVars, lateVars, retryVars, milvusVars, embedVars, request_text, max_length, found, all_entities,
                 ner_status>>

\* one iteration of: for chunk, offset in chunks
NER_Pipeline ==
  /\ ner_pc = "pipeline" /\ chunk_no <= Len(chunks)
  /\ LET chunk  == chunks[chunk_no][1]
         offset == chunks[chunk_no][2]
     IN  \/ \E results \in PipelineResults(chunk) :
              /\ all_entities' = all_entities \o
                   [i \in 1..Len(results) |-> EntityOf(results[i], offset)]
              /\ found' = found \o
                   [i \in 1..Len(results) |->
                      [chunk_no |-> chunk_no, start |-> results[i].start,
                       end |-> results[i].end]]
              /\ chunk_no' = chunk_no + 1
              /\ UNCHANGED <<ner_pc, ner_status>>
         \/ /\ ner_status' = 500                    \* the pipeline raised
            /\ ner_pc' = "done"
            /\ UNCHANGED <<all_entities, found, chunk_no>>
  /\ UNCHANGED <<mainVars, lateVars, retryVars, milvusVars, embedVars, request_text, max_length, start, chunks>>

\* return NERResponse(entities=entities)
NER_Return ==
  /\ ner_pc = "pipeline" /\ chunk_no > Len(chunks)
  /\ ner_status' = 200
  /\ ner_pc' = "done"
  /\ UNCHANGED <<mainVars, lateVars, retryVars, milvusVars, embedVars, request_text, max_length, start, chunks, chunk_no,
                 found, all_entities>>

\* the response is sent; the locals are gone
NER_Complete ==
  /\ ner_pc = "done"
  /\ ner_pc' = "idle" /\ request_text' = <<>> /\ max_length' = 0
  /\ start' = 0 /\ chunks' = <<>> /\ chunk_no' = 0 /\ found' = <<>>
  /\ all_entities' = <<>> /\ ner_status' = 0
  /\ UNCHANGED <<mainVars, lateVars, retryVars, milvusVars, embedVars>>

NextNer ==
  \/ NER_Request
  \/ chunk_text_step
  \/ NER_Pipeline
  \/ NER_Return
  \/ NER_Complete

SpecNer == InitServices /\ [][NextNer]_vars

\* chunk_text is a synchronous loop: once called it keeps running
SpecNerFair == SpecNer /\ WF_vars(chunk_text_step)


\* ================================================= embedding service client
MAX_RETRIES == 3

\* the exceptions the retry decorator of get_embeddings retries on
Retriable == {"HTTPStatusError", "RequestError"}
AttemptOutcomes == {"ok", "Exception"} \cup Retriable

\* stop=stop_after_attempt(MAX_RETRIES)
stop_never(attempt_number) == FALSE
stop_after_attempt(attempt_number) == attempt_number >= MAX_RETRIES

\* whether the call is attempted again after an attempt that ended in
\* error: get_embeddings of the ingestion scripts is decorated with
\* retry, get_embedding of the API is not
Retries(caller, error, attempt_number) ==
  /\ caller = "get_embeddings"
  /\ error \in Retriable
  /\ ~stop_after_attempt(attempt_number)

EMB_Call ==
  /\ emb_pc = "idle" /\ emb_calls < MaxCalls
  /\ emb_caller' \in {"get_embeddings", "get_embedding"}
  /\ emb_pc' = "post"
  /\ UNCHANGED <<mainVars, lateVars, nerVars, milvusVars, embedVars, emb_attempts, emb_outcome, emb_calls>>

\* response = await self.client.post(...); response.raise_for_status()
EMB_Post ==
  /\ emb_pc = "post"
  /\ \E o \in AttemptOutcomes :
       /\ emb_attempts' = Append(emb_attempts, o)
       /\ IF o = "ok"
          THEN emb_pc' = "done" /\ emb_outcome' = "returned"
          ELSE IF Retries(emb_caller, o, Len(emb_attempts'))
               THEN emb_pc' = "sleep" /\ UNCHANGED emb_outcome
               ELSE emb_pc' = "done" /\ emb_outcome' = "raised"
  /\ UNCHANGED <<mainVars, lateVars, nerVars, milvusVars, embedVars, emb_caller, emb_calls>>

\* the exponential wait is over
EMB_Wake ==
  /\ emb_pc = "sleep"
  /\ emb_pc' = "post"
  /\ UNCHANGED <<mainVars, lateVars, nerVars, milvusVars, embedVars, emb_caller, emb_attempts, emb_outcome,
                 emb_calls>>

\* the caller has the embeddings or the exception
EMB_Complete ==
  /\ emb_pc = "done"
  /\ emb_pc' = "idle" /\ emb_caller' = "none" /\ emb_attempts' = <<>>
  /\ emb_outcome' = "none"
  /\ emb_calls' = emb_calls + 1
  /\ UNCHANGED <<mainVars, lateVars, nerVars, milvusVars, embedVars>>

NextRetry ==
  \/ EMB_Call
  \/ EMB_Post
  \/ EMB_Wake
  \/ EMB_Complete

SpecRetry == InitServices /\ [][NextRetry]_vars


\* ===================================== MilvusManager under concurrent search
\* the variables of the retrieval pipeline but the two these steps write
milvusFrame == <<collection, op, pc, args, queried, where_clause, result,
                 outcome, ragVars, epVars>>

\* create_collection of the ingestion script, then the inserts: the index
\* is created with the metric of index_params
IndexMetric == "COSINE"
SearchMetric == "L2"

\* what a run of the ingestion leaves in the index: nothing, or one note
\* of the first patient
Ingested ==
  {{}} \cup {{[patient_id |-> 1, note_id |-> n, embedding |-> e]} :
               n \in NoteIds, e \in 0..MaxEmbedding}

Ingest ==
  /\ index_metric = "none"
  /\ index_metric' = IndexMetric
  /\ notes' \in Ingested
  /\ UNCHANGED <<milvusFrame, lateVars, milvus_collection, nerVars, retryVars,
                 embedVars, loaded, handles, co_pc, co_args, co_collection,
                 co_loaded, co_metric, co_result, co_outcome>>

\* get_collection constructs a handle when self.collection is None
get_collection_always == TRUE
get_collection_creates == milvus_collection = "None"

\* search is called: ensure_collection_loaded runs up to its await, that
\* is get_collection and handing collection.load to a thread
MV_Search(c) ==
  /\ co_pc[c] = "idle"
  /\ \E q \in QueryTexts, k \in TopKs :
       co_args' = [co_args EXCEPT
                     ![c] = [user_query |-> q, patient_id |-> None,
                             top_k |-> k]]
  /\ IF index_metric = "none" /\ get_collection_creates
     THEN /\ co_pc' = [co_pc EXCEPT ![c] = "done"]    \* no such collection
          /\ co_outcome' = [co_outcome EXCEPT ![c] = "raised"]
          /\ UNCHANGED <<milvus_collection, handles, co_collection>>
     ELSE /\ handles' = IF get_collection_creates THEN handles + 1
                        ELSE handles
          /\ milvus_collection' = "Collection"
          /\ co_collection' = [co_collection EXCEPT ![c] = handles']
          /\ co_pc' = [co_pc EXCEPT ![c] = "load"]
          /\ UNCHANGED co_outcome
  /\ UNCHANGED <<milvusFrame, lateVars, notes, nerVars, retryVars, embedVars,
                 index_metric, loaded, co_loaded, co_metric, co_result>>

\* collection.load returns in its thread: the coroutine resumes, takes
\* get_collection again and searches; or the load raised
MV_Loaded(c) ==
  /\ co_pc[c] = "load"
  /\ \/ /\ loaded' = TRUE
        /\ co_loaded' = [co_loaded EXCEPT ![c] = TRUE]
        /\ handles' = IF get_collection_creates THEN handles + 1 ELSE handles
        /\ co_collection' = [co_collection EXCEPT ![c] = handles']
        /\ co_metric' = [co_metric EXCEPT ![c] = SearchMetric]
        /\ \/ /\ \E hits \in MilvusManager_search(
                               EmbeddingOf(co_args[c].user_query),
                               co_args[c].top_k) :
                   co_result' = [co_result EXCEPT ![c] = hits]
              /\ co_outcome' = [co_outcome EXCEPT ![c] = "returned"]
           \/ /\ co_outcome' = [co_outcome EXCEPT ![c] = "raised"]
              /\ UNCHANGED co_result
     \/ /\ co_outcome' = [co_outcome EXCEPT ![c] = "raised"]
        /\ UNCHANGED <<loaded, co_loaded, handles, co_collection, co_metric,
                       co_result>>
  /\ co_pc' = [co_pc EXCEPT ![c] = "done"]
  /\ UNCHANGED <<milvusFrame, lateVars, notes, milvus_collection, nerVars, retryVars,
                 embedVars, index_metric, co_args>>

\* the caller has the list or the exception
MV_Complete(c) ==
  /\ co_pc[c] = "done"
  /\ co_pc' = [co_pc EXCEPT ![c] = "idle"]
  /\ co_args' = [co_args EXCEPT ![c] = NoArgs]
  /\ co_collection' = [co_collection EXCEPT ![c] = 0]
  /\ co_loaded' = [co_loaded EXCEPT ![c] = FALSE]
  /\ co_metric' = [co_metric EXCEPT ![c] = "none"]
  /\ co_result' = [co_result EXCEPT ![c] = <<>>]
  /\ co_outcome' = [co_outcome EXCEPT ![c] = "none"]
  /\ UNCHANGED <<mainVars, lateVars, nerVars, retryVars, embedVars, index_metric, loaded,
                 handles>>

NextMilvus ==
  \/ Ingest
  \/ \E c \in Coroutines : MV_Search(c)
  \/ \E c \in Coroutines : MV_Loaded(c)
  \/ \E c \in Coroutines : MV_Complete(c)

SpecMilvus == InitServices /\ [][NextMilvus]_vars

\* ======================================================= embedding service
\* the service deployed with any BATCH_SIZE >= 1 in its environment
InitEmbed ==
  /\ notes = {}
  /\ collection = "None"
  /\ milvus_collection = "None"
  /\ Idle
  /\ ServicesIdle
  /\ NoPatients
  /\ NoPages
  /\ batch_size \in 1..MaxBatchSize

RequestTexts == UNION {[1..n -> QueryTexts] : n \in 0..MaxRequestTexts}

\* the sentence embedding the model computes for one text
model_embedding(text) == <<EmbeddingOf(text)>>

Failed == [ok |-> FALSE, embeddings |-> <<>>, splits |-> 0, calls |-> {}]

\* process_batch(a) + process_batch(b): b is only called when a returned
halves_swapped(a, b) ==
  IF ~a.ok THEN [Failed EXCEPT !.calls = a.calls]
  ELSE IF ~b.ok THEN [Failed EXCEPT !.calls = a.calls \cup b.calls]
  ELSE [ok |-> TRUE, embeddings |-> b.embeddings \o a.embeddings,
        splits |-> a.splits + b.splits + 1, calls |-> a.calls \cup b.calls]
halves(a, b) ==
  IF ~a.ok THEN [Failed EXCEPT !.calls = a.calls]
  ELSE IF ~b.ok THEN [Failed EXCEPT !.calls = a.calls \cup b.calls]
  ELSE [ok |-> TRUE, embeddings |-> a.embeddings \o b.embeddings,
        splits |-> a.splits + b.splits + 1, calls |-> a.calls \cup b.calls]

\* the recursive call of process_batch(parent) on child, as the history
\* keeps it
called(parent, child, r) ==
  [r EXCEPT !.calls = @ \cup {<<Len(parent), Len(child)>>}]

\* what process_batch(texts) can come to: the embeddings of the forward
\* pass; an exception (of the tokenizer, or a RuntimeError that is not out
\* of memory); or, out of memory, the two halves processed one after the
\* other. What the tokenizer makes of an empty list is the library's
\* choice: no embeddings, or an exception. An out-of-memory error is drawn
\* at most MaxSplitDepth levels deep.
RECURSIVE process_batch(_, _)
process_batch(texts, depth) ==
  LET forward == [ok |-> TRUE,
                  embeddings |-> [i \in 1..Len(texts) |->
                                    model_embedding(texts[i])],
                  splits |-> 0, calls |-> {}]
      half_batch == Len(texts) \div 2
      first  == Slice(texts, 0, half_batch)
      second == Slice(texts, half_batch, Len(texts))
  IN  {forward, Failed} \cup
      IF texts # <<>> /\ depth < MaxSplitDepth
      THEN {halves(called(texts, first, a),
                   IF a.ok THEN called(texts, second, b) ELSE b) :
              a \in process_batch(first, depth + 1),
              b \in process_batch(second, depth + 1)}
      ELSE {}

\* the startup hook has loaded model and tokenizer
SRV_LoadModel ==
  /\ ~model_loaded
  /\ model_loaded' = TRUE
  /\ UNCHANGED <<mainVars, lateVars, nerVars, retryVars, milvusVars, batch_size, srv_pc,
                 req_texts, batch_i, all_embeddings, splits, recursed,
                 srv_status>>

\* POST /embeddings arrives
SRV_Request ==
  /\ srv_pc = "idle"
  /\ req_texts' \in RequestTexts
  /\ IF model_loaded
     THEN srv_pc' = "batching" /\ UNCHANGED srv_status
     ELSE srv_pc' = "done" /\ srv_status' = 503
  /\ UNCHANGED <<mainVars, lateVars, nerVars, retryVars, milvusVars, batch_size,
                 model_loaded, batch_i, all_embeddings, splits, recursed>>

\* one iteration of: for i in range(0, len(request.texts), BATCH_SIZE)
SRV_Batch ==
  /\ srv_pc = "batching" /\ batch_i < Len(req_texts)
  /\ \E batch_embeddings \in
          process_batch(Slice(req_texts, batch_i, batch_i + batch_size), 0) :
       /\ recursed' = recursed \cup batch_embeddings.calls
       /\ IF batch_embeddings.ok
          THEN /\ all_embeddings' =
                    all_embeddings \o batch_embeddings.embeddings
               /\ splits' = splits + batch_embeddings.splits
               /\ batch_i' = batch_i + batch_size
               /\ UNCHANGED <<srv_pc, srv_status>>
          ELSE /\ srv_status' = 500
               /\ srv_pc' = "done"
               /\ UNCHANGED <<all_embeddings, splits, batch_i>>
  /\ UNCHANGED <<mainVars, lateVars, nerVars, retryVars, milvusVars, batch_size,
                 model_loaded, req_texts>>

\* return {"embeddings": all_embeddings}
SRV_Return ==
  /\ srv_pc = "batching" /\ batch_i >= Len(req_texts)
  /\ srv_status' = 200
  /\ srv_pc' = "done"
  /\ UNCHANGED <<mainVars, lateVars, nerVars, retryVars, milvusVars, batch_size,
                 model_loaded, req_texts, batch_i, all_embeddings, splits,
                 recursed>>

\* the response is sent; the locals are gone
SRV_Complete ==
  /\ srv_pc = "done"
  /\ srv_pc' = "idle" /\ req_texts' = <<>> /\ batch_i' = 0
  /\ all_embeddings' = <<>> /\ splits' = 0 /\ recursed' = {}
  /\ srv_status' = 0
  /\ UNCHANGED <<mainVars, lateVars, nerVars, retryVars, milvusVars, batch_size,
                 model_loaded>>

NextEmbed ==
  \/ SRV_LoadModel
  \/ SRV_Request
  \/ SRV_Batch
  \/ SRV_Return
  \/ SRV_Complete

SpecEmbed == InitEmbed /\ [][NextEmbed]_vars

\* ================================================================ pages API
\* Page(**page): every Query of query_answers needs its page_id
ValidPage(page) ==
  \A i \in 1..Len(page.query_answers) :
    "page_id" \in DOMAIN page.query_answers[i].query

\* the Page model of a stored document (the _id is not a field of Page)
PageOf(doc) ==
  [id |-> doc.id, user_id |-> doc.user_id,
   query_answers |-> doc.query_answers]

\* POST /pages/create: page_id = str(ObjectId()), and insert_one gives the
\* document an _id of its own
create_page(u) ==
  /\ Len(pages) < MaxPages
  /\ \E q \in Queries :
       LET page_id == StrOf(next_oid)
           page_data ==
             [id |-> page_id, user_id |-> StrOf(u),
              query_answers |->
                <<[query |-> [query |-> q, page_id |-> page_id],
                   is_first |-> TRUE]>>]
       IN  /\ pages' = Append(pages, [_id |-> next_oid + 1] @@ page_data)
           /\ pg_last' = [op |-> "create_page", user |-> u,
                          page_id |-> page_id, status |-> 200,
                          body |-> <<>>]
  /\ next_oid' = next_oid + 2
  /\ UNCHANGED <<mainVars, pagesFrame>>

\* POST /pages/{page_id}/append
append_to_page(u, page_id) ==
  /\ LET existing_page ==
           find_one([_id |-> ObjectId(page_id), user_id |-> StrOf(u)])
         target == find_one([_id |-> ObjectId(page_id)])
     IN  IF existing_page = 0
         THEN /\ pg_last' = [op |-> "append_to_page", user |-> u,
                             page_id |-> page_id, status |-> 404,
                             body |-> <<>>]
              /\ UNCHANGED pages
         ELSE /\ Len(pages[target].query_answers) < MaxAnswers
              /\ \E question \in Queries, answer \in AnswerTexts :
                   pages' = [pages EXCEPT ![target].query_answers =
                               Append(@, [query |-> [query |-> question],
                                          answer |-> [answer |-> answer,
                                                      reasoning |-> ""],
                                          is_first |-> FALSE])]
              /\ pg_last' = [op |-> "append_to_page", user |-> u,
                             page_id |-> page_id, status |-> 200,
                             body |-> <<>>]
  /\ UNCHANGED <<mainVars, pagesFrame, next_oid>>

\* GET /pages/history
get_user_page_history(u) ==
  /\ LET mine == {i \in 1..Len(pages) :
                    Matches(pages[i], [user_id |-> StrOf(u)])}
         newest_first ==
           [r \in 1..Cardinality(mine) |->
              CHOOSE i \in mine :
                Cardinality({j \in mine : j > i}) = r - 1]
     IN  pg_last' =
           IF \A i \in mine : ValidPage(pages[i])
           THEN [op |-> "get_user_page_history", user |-> u, page_id |-> "",
                 status |-> 200,
                 body |-> [r \in 1..Cardinality(mine) |->
                             PageOf(pages[newest_first[r]])]]
           ELSE [op |-> "get_user_page_history", user |-> u, page_id |-> "",
                 status |-> 500, body |-> <<>>]
  /\ UNCHANGED <<mainVars, pagesFrame, pages, next_oid>>

\* GET /pages/{page_id}
get_page(u, page_id) ==
  /\ LET page == find_one([id |-> page_id, user_id |-> StrOf(u)])
     IN  pg_last' =
           IF page = 0
           THEN [op |-> "get_page", user |-> u, page_id |-> page_id,
                 status |-> 404, body |-> <<>>]
           ELSE IF ValidPage(pages[page])
           THEN [op |-> "get_page", user |-> u, page_id |-> page_id,
                 status |-> 200, body |-> <<PageOf(pages[page])>>]
           ELSE [op |-> "get_page", user |-> u, page_id |-> page_id,
                 status |-> 500, body |-> <<>>]
  /\ UNCHANGED <<mainVars, pagesFrame, pages, next_oid>>

NextPages ==
  \/ \E u \in Users : create_page(u)
  \/ \E u \in Users, page_id \in PathIds : append_to_page(u, page_id)
  \/ \E u \in Users : get_user_page_history(u)
  \/ \E u \in Users, page_id \in PathIds : get_page(u, page_id)

SpecPages == InitServices /\ [][NextPages]_vars

\* ============================================================ ingestion job
JOB_BATCH_SIZE == 1    \* BATCH_SIZE of scripts/load_note_embeddings.py
MAX_PATIENTS == 2

\* db.patients as the job finds it: every patient with its notes, none
\* processed yet
InitIngest ==
  /\ notes = {}
  /\ collection = "None"
  /\ milvus_collection = "None"
  /\ Idle
  /\ ServicesIdle
  /\ batch_size = BATCH_SIZE
  /\ NoPages
  /\ patients_collection \in
       [JobPatients -> [notes : 0..MaxJobNotes, processed : {FALSE}]]

\* s[:n]
Limit(s, n) == SubSeq(s, 1, Min(n, Len(s)))

\* the patient ids of a set, as the cursor yields them
InIdOrder(S) ==
  [r \in 1..Cardinality(S) |->
     CHOOSE p \in S : Cardinality({q \in S : q < p}) = r - 1]

\* patients_collection.find(query).limit(MAX_PATIENTS)
JobQuery(recreate) ==
  Limit(InIdOrder({p \in JobPatients :
                     recreate \/ ~patients_collection[p].processed}),
        MAX_PATIENTS)

\* MilvusManager.patient_exists
patient_exists(patient_id) == \E row \in vectors : row[1] = patient_id

\* notes[i : i + BATCH_SIZE] as Milvus rows
BatchRows(patient_id, i) ==
  {<<patient_id, n>> :
     n \in (i + 1)..Min(i + JOB_BATCH_SIZE,
                        patients_collection[patient_id].notes)}

\* what one process_batch call can come to: embedded and inserted, or an
\* exception of get_embeddings, the format check or insert_vectors
BatchOutcomes == {"inserted", "embedding_failed", "insert_failed"}

\* main(recreate_collection) up to the cursor of process_patients
JOB_main(recreate) ==
  /\ job_pc \in {"idle", "done"}
  /\ runs < MaxRuns
  /\ runs' = runs + 1
  /\ recreate_collection' = recreate
  /\ vectors' = IF recreate THEN {} ELSE vectors
  /\ job_cursor' = JobQuery(recreate)
  /\ patients_processed' = 0
  /\ job_errors' = {}
  /\ job_patient' = 0
  /\ job_i' = 0
  /\ job_pc' = "cursor"
  /\ UNCHANGED <<mainVars, jobFrame, patients_collection>>

\* async for patient in cursor: up to the batch loop
JOB_NextPatient ==
  /\ job_pc = "cursor"
  /\ IF job_cursor = <<>>
     THEN /\ job_pc' = "done"
          /\ UNCHANGED <<job_cursor, job_patient, job_i>>
     ELSE LET patient_id == Head(job_cursor)
          IN  /\ job_cursor' = Tail(job_cursor)
              /\ IF \/ ~recreate_collection /\ patient_exists(patient_id)
                    \/ patients_collection[patient_id].notes = 0
                 THEN UNCHANGED <<job_pc, job_patient, job_i>>
                 ELSE /\ job_pc' = "batch"
                      /\ job_patient' = patient_id
                      /\ job_i' = 0
  /\ UNCHANGED <<mainVars, jobFrame, patients_collection, vectors,
                 recreate_collection, patients_processed, job_errors, runs>>

\* one iteration of: for i in range(0, len(notes), BATCH_SIZE); the except
\* branch of process_batch logs the error and returns 0
JOB_process_batch ==
  /\ job_pc = "batch"
  /\ \E came_to \in BatchOutcomes :
       /\ IF came_to = "inserted"
          THEN /\ vectors' = vectors \cup BatchRows(job_patient, job_i)
               /\ UNCHANGED job_errors
          ELSE /\ job_errors' = job_errors \cup {<<job_patient, job_i>>}
               /\ UNCHANGED vectors
  /\ job_i' = job_i + JOB_BATCH_SIZE
  /\ job_pc' = IF job_i' < patients_collection[job_patient].notes
               THEN "batch" ELSE "mark"
  /\ UNCHANGED <<mainVars, jobFrame, patients_collection,
                 recreate_collection, job_cursor, job_patient,
                 patients_processed, runs>>

\* after the batch loop: count the patient and $set processed
JOB_MarkProcessed ==
  /\ job_pc = "mark"
  /\ patients_processed' = patients_processed + 1
  /\ patients_collection' =
       [patients_collection EXCEPT ![job_patient].processed = TRUE]
  /\ job_pc' = IF patients_processed' >= MAX_PATIENTS
               THEN "done" ELSE "cursor"
  /\ UNCHANGED <<mainVars, jobFrame, vectors, recreate_collection,
                 job_cursor, job_patient, job_i, job_errors, runs>>

NextIngest ==
  \/ \E recreate \in BOOLEAN : JOB_main(recreate)
  \/ JOB_NextPatient
  \/ JOB_process_batch
  \/ JOB_MarkProcessed

SpecIngest == InitIngest /\ [][NextIngest]_vars

\* ============================================================ entity loader
\* the entity lists the NER service can answer with
ExtractedLists == {<<>>, <<"aspirin">>}

\* DatabaseManager.get_all_notes: one row per note; entities_exist is
\* $ifNull(notes.entities, False): the stored list, or False (a field that
\* does not exist) when there is none
get_all_notes ==
  [r \in 1..MaxEntNotes |->
     [note_id |-> r, entities_exist |-> stored_entities[r]]]

\* Python truth of entities_exist: a non-empty list
EntitiesTruthy(entities_exist) ==
  entities_exist.exists /\ entities_exist.entities # <<>>

\* if not recreate and note["entities_exist"]
skips_nothing(recreate, note) == FALSE
skips(recreate, note) == ~recreate /\ EntitiesTruthy(note.entities_exist)

\* what the try block of one note can come to
NoteOutcomes == {"processed", "extract_failed", "update_failed"}

\* process_notes up to its loop
ENT_process_notes(recreate) ==
  /\ ent_pc \in {"idle", "done"}
  /\ ent_runs < MaxEntRuns
  /\ ent_runs' = ent_runs + 1
  /\ ent_recreate' = recreate
  /\ all_notes' = get_all_notes
  /\ ent_i' = 0
  /\ ner_calls' = <<>>
  /\ db_updates' = <<>>
  /\ progress' = <<>>
  /\ ent_pc' = "loop"
  /\ UNCHANGED <<mainVars, entFrame, stored_entities>>

\* one iteration of: for i, note in enumerate(notes)
ENT_Note ==
  /\ ent_pc = "loop"
  /\ ent_i < Len(all_notes)
  /\ LET note == all_notes[ent_i + 1]
     IN  IF skips(ent_recreate, note)
         THEN /\ progress' = Append(progress, [note_id |-> note.note_id,
                                               description |-> "Skipped"])
              /\ UNCHANGED <<stored_entities, ner_calls, db_updates>>
         ELSE \E came_to \in NoteOutcomes, entities \in ExtractedLists :
                /\ ner_calls' = Append(ner_calls, note.note_id)
                /\ db_updates' = IF came_to = "extract_failed"
                                 THEN db_updates
                                 ELSE Append(db_updates, note.note_id)
                /\ stored_entities' =
                     IF came_to = "processed"
                     THEN [stored_entities EXCEPT ![note.note_id] =
                             [exists |-> TRUE, entities |-> entities]]
                     ELSE stored_entities
                /\ progress' =
                     Append(progress,
                            [note_id |-> note.note_id,
                             description |-> IF came_to = "processed"
                                             THEN "Processed" ELSE "Error"])
  /\ ent_i' = ent_i + 1
  /\ UNCHANGED <<mainVars, entFrame, ent_pc, ent_recreate, all_notes,
                 ent_runs>>

\* the loop is through
ENT_Return ==
  /\ ent_pc = "loop"
  /\ ent_i = Len(all_notes)
  /\ ent_pc' = "done"
  /\ UNCHANGED <<mainVars, entFrame, stored_entities, ent_recreate,
                 all_notes, ent_i, ner_calls, db_updates, progress, ent_runs>>

NextEntities ==
  \/ \E recreate \in BOOLEAN : ENT_process_notes(recreate)
  \/ ENT_Note
  \/ ENT_Return

SpecEntities == InitServices /\ [][NextEntities]_vars

\* ========================================================= EHRDataManager
\* the directories init_lazy_df can be pointed at: one without parquet
\* files, one whose files lack a required column, one in MEDS format
Directories == {"empty", "no_description", "meds"}

MedsColumns == {"subject_id", "hadm_id", "code", "description", "time",
                "numeric_value", "text_value"}

\* the columns of the parquet files of a directory
SchemaOf(directory) ==
  IF directory = "meds" THEN MedsColumns
  ELSE MedsColumns \ {"description"}

\* self._required_columns
required_columns == {"patient_id", "encounter_id", "code", "description",
                     "timestamp", "numeric_value", "text_value"}

\* lazy_df.rename({"subject_id": ..., "hadm_id": ..., "time": ...})
rename(columns) ==
  {CASE c = "subject_id" -> "patient_id"
     [] c = "hadm_id"    -> "encounter_id"
     [] c = "time"       -> "timestamp"
     [] OTHER            -> c : c \in columns}

\* EHRDataManager.init_lazy_df: self.lazy_df is assigned before the schema
\* is checked
init_lazy_df(directory) ==
  /\ ehr_calls < MaxEhrCalls
  /\ ehr_calls' = ehr_calls + 1
  /\ IF lazy_df # NoFrame
     THEN /\ ehr_last' = [op |-> "init_lazy_df", arg |-> directory,
                          raised |-> "none"]
          /\ UNCHANGED <<lazy_df, ehr_log>>
     ELSE IF directory = "empty"
     THEN \* scan_parquet finds no file
          /\ ehr_last' = [op |-> "init_lazy_df", arg |-> directory,
                          raised |-> "scan_parquet"]
          /\ ehr_log' = Append(ehr_log, "LazyFrame initialization failed")
          /\ UNCHANGED lazy_df
     ELSE LET scanned == [frame |-> TRUE,
                          columns |-> rename(SchemaOf(directory))]
              missing_columns == required_columns \ scanned.columns
          IN  /\ lazy_df' = scanned
              /\ IF missing_columns # {}
                 THEN /\ ehr_last' =
                           [op |-> "init_lazy_df", arg |-> directory,
                            raised |-> "Missing required columns"]
                      /\ ehr_log' =
                           Append(ehr_log, "LazyFrame initialization failed")
                 ELSE /\ ehr_last' =
                           [op |-> "init_lazy_df", arg |-> directory,
                            raised |-> "none"]
                      /\ ehr_log' =
                           Append(ehr_log,
                                  "LazyFrame initialized successfully")
  /\ UNCHANGED <<mainVars, ehrFrame>>

\* EHRDataManager.fetch_patient_events
fetch_patient_events(patient_id) ==
  /\ ehr_calls < MaxEhrCalls
  /\ ehr_calls' = ehr_calls + 1
  /\ IF lazy_df = NoFrame
     THEN /\ ehr_last' = [op |-> "fetch_patient_events",
                          arg |-> StrOf(patient_id),
                          raised |-> "LazyFrame not initialized"]
          /\ UNCHANGED ehr_log
     ELSE IF required_columns \subseteq lazy_df.columns
     THEN /\ ehr_last' = [op |-> "fetch_patient_events",
                          arg |-> StrOf(patient_id), raised |-> "none"]
          /\ UNCHANGED ehr_log
     ELSE \* select of a column the frame does not have
          /\ ehr_last' = [op |-> "fetch_patient_events",
                          arg |-> StrOf(patient_id),
                          raised |-> "ColumnNotFoundError"]
          /\ ehr_log' = Append(ehr_log, "Error fetching events")
  /\ UNCHANGED <<mainVars, ehrFrame, lazy_df>>

NextEhr ==
  \/ \E directory \in Directories : init_lazy_df(directory)
  \/ \E patient_id \in 1..MaxPatient : fetch_patient_events(patient_id)

SpecEhr == InitServices /\ [][NextEhr]_vars

\* ======================================================= streaming endpoint
\* the step lists generate_cot_steps can return
StepLists == UNION {[1..n -> {"step"}] : n \in 0..MaxSteps}

\* the calls event_stream awaits, in the order of the code
Awaited == {"get_patient_data", "retrieve_relevant_notes",
            "generate_cot_steps", "generate_cot_answer", "insert_one"}

\* POST /generate_cot_answer: StreamingResponse(event_stream()) up to the
\* first await
STREAM_Request(patient_id) ==
  /\ stream_pc \in {"idle", "closed"}
  /\ streams < MaxStreams
  /\ streams' = streams + 1
  /\ stream_query' = patient_id
  /\ stream_steps' = <<>>
  /\ stream_i' = 0
  /\ events' = <<>>
  /\ stream_failed' = "none"
  /\ stream_pc' = IF Truthy(patient_id) THEN "get_patient_data"
                  ELSE "generate_cot_steps"
  /\ UNCHANGED <<mainVars, streamFrame, pages, next_oid>>

\* await get_patient_data(...) returns
STREAM_GetPatientData ==
  /\ stream_pc = "get_patient_data"
  /\ stream_pc' = "retrieve_relevant_notes"
  /\ UNCHANGED <<mainVars, streamFrame, pages, next_oid, stream_query,
                 stream_steps, stream_i, events, stream_failed, streams>>

\* await retrieve_relevant_notes(...) returns
STREAM_Retrieve ==
  /\ stream_pc = "retrieve_relevant_notes"
  /\ stream_pc' = "generate_cot_steps"
  /\ UNCHANGED <<mainVars, streamFrame, pages, next_oid, stream_query,
                 stream_steps, stream_i, events, stream_failed, streams>>

\* steps = await generate_cot_steps(...)
STREAM_GenerateSteps ==
  /\ stream_pc = "generate_cot_steps"
  /\ \E steps \in StepLists :
       /\ stream_steps' = steps
       /\ stream_pc' = IF steps = <<>> THEN "generate_cot_answer"
                       ELSE "yield_step"
  /\ UNCHANGED <<mainVars, streamFrame, pages, next_oid, stream_query,
                 stream_i, events, stream_failed, streams>>

\* one iteration of: for step in steps: yield ...; await asyncio.sleep(0.1)
STREAM_YieldStep ==
  /\ stream_pc = "yield_step"
  /\ events' = Append(events, [type |-> "step",
                               content |-> stream_steps[stream_i + 1]])
  /\ stream_i' = stream_i + 1
  /\ stream_pc' = IF stream_i' < Len(stream_steps) THEN "yield_step"
                  ELSE "generate_cot_answer"
  /\ UNCHANGED <<mainVars, streamFrame, pages, next_oid, stream_query,
                 stream_steps, stream_failed, streams>>

\* answer, reasoning = await generate_cot_answer(...); yield the answer
STREAM_GenerateAnswer ==
  /\ stream_pc = "generate_cot_answer"
  /\ \E answer \in AnswerTexts :
       events' = Append(events, [type |-> "answer", content |-> answer])
  /\ stream_pc' = "insert_one"
  /\ UNCHANGED <<mainVars, streamFrame, pages, next_oid, stream_query,
                 stream_steps, stream_i, stream_failed, streams>>

\* result = await db.pages.insert_one(page_data); yield the page id
STREAM_InsertPage ==
  /\ stream_pc = "insert_one"
  /\ pages' = Append(pages, [_id |-> next_oid, user_id |-> StrOf(1),
                             original_query |-> "chest pain aspirin"])
  /\ next_oid' = next_oid + 1
  /\ events' = Append(events, [type |-> "page_id",
                               content |-> StrOf(next_oid)])
  /\ stream_pc' = "closed"
  /\ UNCHANGED <<mainVars, streamFrame, stream_query, stream_steps,
                 stream_i, stream_failed, streams>>

\* the awaited call raises: except Exception yields the error event and the
\* generator ends
STREAM_ExceptResumes ==
  /\ stream_pc \in Awaited \ {"insert_one"}
  /\ events' = Append(events, [type |-> "error", content |-> stream_pc])
  /\ stream_failed' = stream_pc
  /\ stream_pc' = "insert_one"
  /\ UNCHANGED <<mainVars, streamFrame, pages, next_oid, stream_query,
                 stream_steps, stream_i, streams>>
STREAM_Except ==
  /\ stream_pc \in Awaited
  /\ events' = Append(events, [type |-> "error", content |-> stream_pc])
  /\ stream_failed' = stream_pc
  /\ stream_pc' = "closed"
  /\ UNCHANGED <<mainVars, streamFrame, pages, next_oid, stream_query,
                 stream_steps, stream_i, streams>>

\* the client goes away: the generator is closed where it stands, which no
\* except Exception catches
STREAM_Disconnect ==
  /\ stream_pc \in Awaited \cup {"yield_step"}
  /\ stream_pc' = "closed"
  /\ UNCHANGED <<mainVars, streamFrame, pages, next_oid, stream_query,
                 stream_steps, stream_i, events, stream_failed, streams>>

NextStream ==
  \/ \E patient_id \in {None, 1} : STREAM_Request(patient_id)
  \/ STREAM_GetPatientData
  \/ STREAM_Retrieve
  \/ STREAM_GenerateSteps
  \/ STREAM_YieldStep
  \/ STREAM_GenerateAnswer
  \/ STREAM_InsertPage
  \/ STREAM_Except
  \/ STREAM_Disconnect

SpecStream == InitServices /\ [][NextStream]_vars

\* ================================================================ claims
\* the specification's notion of overlap: entity identities are lower-cased
\* canonical names, the overlap of two texts is the intersection of the sets
Lower(name) ==
  CASE name = "Chest Pain" -> "chest pain"
    [] name = "Aspirin"    -> "aspirin"
    [] OTHER               -> name
NormalizedEntities(text) == {Lower(e) : e \in CatEntities(text)}
Overlap(query_text, note_text) ==
  NormalizedEntities(query_text) \cap NormalizedEntities(note_text)

IsSearch == op \in {"rag", "milvus"}
Returned(o) == op = o /\ outcome = "returned"

\* C1: every candidate the vector search returns, and every note that
\* retrieve_relevant_notes returns, belongs to the patient the query was
\* issued for.
C1_ScopingInvariant ==
  Truthy(args.patient_id) =>
    /\ op = "rag" =>
         \A i \in 1..Len(search_results) :
            search_results[i].patient_id = args.patient_id
    /\ (IsSearch /\ outcome = "returned") =>
         \A i \in 1..Len(result) : result[i].patient_id = args.patient_id

\* C2: a search without a patient id (None or 0) is rejected with an error
\* and the index is never queried without a patient_id filter.
C2_UnscopedSearchRejected ==
  /\ queried => where_clause # NoneDict
  /\ (IsSearch /\ ~Truthy(args.patient_id) /\ pc = "done") =>
       outcome = "raised"

\* C3: every note returned by RAGManager.retrieve_relevant_notes shares at
\* least one entity with the query.
C3_OverlapFilter ==
  Returned("rag") =>
    \A i \in 1..Len(result) :
       Overlap(args.user_query, result[i].note_text) # {}

\* C4: the matching entities recorded for a candidate are the intersection
\* of the normalized (lower-cased) entity names of the query and of the
\* note, and a candidate is kept exactly when that intersection is not empty.
C4_NormalizedIntersection ==
  (op = "rag" /\ pc = "note_ner") =>
    /\ \A i \in 1..Len(filtered_results) :
          filtered_results[i].matching_entities =
            Overlap(args.user_query, filtered_results[i].note_text)
    /\ Len(filtered_results) =
         Cardinality({i \in 1..(cursor - 1) :
            Overlap(args.user_query, search_results[i].note_text) # {}})

\* C5: the returned list is ordered by the number of entities a note has in
\* common with the query, non-increasing, and among notes with the same
\* number by similarity, non-increasing (stated here for a patient's notes
\* that do have an entity in common with the query).
C5_RankOrder ==
  (Returned("rag") /\ Truthy(args.patient_id)) =>
    \A i, j \in 1..Len(result) :
       LET ni == Cardinality(Overlap(args.user_query, result[i].note_text))
           nj == Cardinality(Overlap(args.user_query, result[j].note_text))
       IN  (i < j /\ ni >= 1 /\ nj >= 1) =>
             \/ ni > nj
             \/ ni = nj /\ result[i].distance >= result[j].distance

\* C6: the returned list never has more than top_k elements.
C6_Truncation ==
  Returned("rag") => Len(result) <= args.top_k

\* top_k notes were returned while the patient has more notes in the index
C6_Witness ==
  /\ Returned("rag")
  /\ Len(result) = args.top_k
  /\ Cardinality({n \in notes : n.patient_id = args.patient_id}) > args.top_k

\* C8: when no candidate shares an entity with the query, the returned list
\* is empty.
C8_EmptyWhenDisjoint ==
  (/\ Returned("rag")
   /\ \A i \in 1..Len(search_results) :
         Overlap(args.user_query, search_results[i].note_text) = {})
  => result = <<>>

LLMCalls == {"generate_cot_steps", "generate_cot_answer"}

\* C9: when retrieval for a patient query yields no notes, the endpoints
\* generate the steps and the answer in general mode and report no error.
C9_GeneralModeFallback ==
  (/\ op \in Endpoints
   /\ \E i \in 1..Len(calls) : calls[i].svc = "retrieve_relevant_notes"
   /\ result = <<>>)
  => \A i \in 1..Len(calls) :
        calls[i].svc \in LLMCalls => calls[i].mode = "general"

\* C10: a failed extraction for one candidate note is not raised to the
\* caller of retrieve_relevant_notes: no call ends with an exception while
\* the loop over the candidates is at a candidate.
C10_ExtractionFailureAbsorbed ==
  ~(/\ op = "rag" /\ outcome = "raised"
    /\ cursor >= 1 /\ cursor <= Len(search_results))

\* the notes of the index that pass the where clause of the search in hand
Matching ==
  {n \in notes : where_clause = NoneDict
                 \/ ChromaRow(n).metadata.patient_id = where_clause.patient_id}

NoNoteFor(patient_id) ==
  Truthy(patient_id) /\ \A n \in notes : n.patient_id # patient_id

\* C12: when the index holds no note of the requested patient, the search
\* returns the empty list and so does retrieve_relevant_notes, in
\* RAGManager and at module level; the empty list is among the outcomes,
\* and the only one short of a failure of the query itself.
C12_EmptyIsNotAnError ==
  /\ (op = "rag" /\ pc = "search" /\ collection # "None"
        /\ NoNoteFor(args.patient_id)) =>
       ChromaManager_search(query_embedding, args.patient_id, args.top_k)
         = {<<>>}
  /\ (op = "rag" /\ pc \in {"query_ner", "note_ner"}
        /\ NoNoteFor(args.patient_id)) => search_results = <<>>
  /\ (Returned("rag") /\ NoNoteFor(args.patient_id)) => result = <<>>
  /\ (op \in Endpoints /\ pc = "retrieve" /\ collection # "None"
        /\ NoNoteFor(args.patient_id)) =>
       retrieve_relevant_notes(args.user_query, args.patient_id, TOP_K)
         = {<<>>}
  /\ (op \in Endpoints /\ queried /\ NoNoteFor(args.patient_id)) =>
       result = <<>> /\ context = <<>>

\* a call for a patient without notes, over an index that holds notes of
\* another patient, has returned
C12_Witness ==
  /\ Returned("rag") /\ NoNoteFor(args.patient_id) /\ notes # {}
  /\ queried /\ result = <<>>

\* C15: the stages of one retrieve_relevant_notes call run in order: the
\* search is issued only with the query embedding in hand, extraction of
\* the query and of the candidates only after the search returned, and the
\* sorted, truncated list is produced only once every candidate has been
\* through extraction.
C15_StageOrder ==
  op = "rag" =>
    /\ (InFlight \in {"search", "query_ner", "note_ner"} \/ queried)
         => query_embedding # None
    /\ InFlight \in {"get_embedding", "search"} =>
         /\ search_results = <<>> /\ query_entities = NoneDict
         /\ cursor = 0 /\ filtered_results = <<>>
    /\ InFlight = "get_embedding" => ~queried
    /\ (query_entities # NoneDict \/ cursor > 0) => queried
    /\ InFlight = "query_ner" => cursor = 0 /\ filtered_results = <<>>
    /\ cursor > 0 => query_entities # NoneDict
    /\ outcome = "returned" => cursor = Len(search_results) + 1
    /\ outcome # "returned" => result = <<>>

\* a call that went through every stage with two candidates
C15_Witness ==
  /\ Returned("rag") /\ Len(search_results) = 2 /\ cursor = 3

\* C17: a call cancelled during candidate extraction has no call in
\* flight any more, and after the cancellation it takes no step but its
\* completion: no extraction is started for a remaining candidate.
C17_CancelStopsExtraction ==
  /\ [](op = "rag" /\ outcome = "cancelled" => InFlight = "none" /\ pc = "done")
  /\ [][(op = "rag" /\ outcome = "cancelled") => op' = "none"]_vars

\* cancelled during the extraction of the first of two candidates
C17_Witness ==
  /\ op = "rag" /\ outcome = "cancelled"
  /\ cursor = 1 /\ Len(search_results) = 2

\* C13: every entity perform_ner reports for a chunk that begins at offset
\* o has start and end equal to the chunk-local start and end plus o, and
\* the request text between the reported start and end is exactly the
\* chunk text between the chunk-local start and end.
C13_OffsetReconciliation ==
  /\ Len(all_entities) = Len(found)
  /\ \A i \in 1..Len(all_entities) :
       LET chunk  == chunks[found[i].chunk_no][1]
           offset == chunks[found[i].chunk_no][2]
       IN  /\ all_entities[i].start = found[i].start + offset
           /\ all_entities[i].end = found[i].end + offset
           /\ Slice(request_text, all_entities[i].start, all_entities[i].end)
                = Slice(chunk, found[i].start, found[i].end)
           /\ Slice(chunk, found[i].start, found[i].end) = all_entities[i].word
           /\ Len(all_entities[i].word) = found[i].end - found[i].start

\* an entity was found inside the second chunk of a text, off the chunk's
\* first character
C13_Witness ==
  /\ ner_status = 200 /\ Len(chunks) >= 2
  /\ \E i \in 1..Len(found) :
       /\ found[i].chunk_no = 2 /\ found[i].start > 0
       /\ all_entities[i].start > found[i].start

RECURSIVE Concat(_)
Concat(cs) ==
  IF cs = <<>> THEN <<>> ELSE Concat(SubSeq(cs, 1, Len(cs) - 1)) \o cs[Len(cs)][1]

Separators == {".", " "}

\* C20: chunk_text partitions its input. The chunks made so far,
\* concatenated in order, are the text up to the next start (the whole
\* text once chunk_text has returned); each chunk's offset is the total
\* length of the chunks before it, and the text from there on is the
\* chunk; a chunk that is not the last ends immediately before a period or
\* space whenever its window holds one after the first character.
C20_ChunksPartition ==
  ner_pc \in {"chunk_text", "pipeline", "done"} =>
    /\ Concat(chunks) =
         IF ner_pc = "chunk_text" THEN Slice(request_text, 0, start)
         ELSE request_text
    /\ \A i \in 1..Len(chunks) :
         /\ chunks[i][2] = Len(Concat(SubSeq(chunks, 1, i - 1)))
         /\ Slice(request_text, chunks[i][2], chunks[i][2] + Len(chunks[i][1]))
              = chunks[i][1]
         /\ Len(chunks[i][1]) >= 1 /\ Len(chunks[i][1]) <= max_length
    /\ \A i \in 1..Len(chunks) :
         (i < Len(chunks) \/ ner_pc = "chunk_text") =>
           LET o == chunks[i][2]
               e == o + Len(chunks[i][1])
           IN  (\E j \in (o + 1)..(o + max_length - 1) :
                  request_text[j + 1] \in Separators)
               => request_text[e + 1] \in Separators

\* a text cut into three chunks, the first of them short of max_length
\* because the cut fell on a separator
C20_Witness ==
  /\ ner_pc = "pipeline" /\ Len(chunks) = 3
  /\ Len(chunks[1][1]) < max_length
  /\ request_text[chunks[2][2] + 1] \in Separators

\* C14: a call to the embedding service makes a bounded number of
\* attempts and then surfaces the failure: get_embeddings of the ingestion
\* scripts at most 3, each but the last ended by an HTTP-status or request
\* error, get_embedding of the API exactly one; a call that ends after a
\* failed last attempt raises.
C14_BoundedAttempts ==
  /\ emb_caller = "get_embeddings" => Len(emb_attempts) <= 3
  /\ emb_caller = "get_embedding" => Len(emb_attempts) <= 1
  /\ emb_pc = "done" =>
       /\ Len(emb_attempts) >= 1
       /\ emb_caller = "get_embedding" => Len(emb_attempts) = 1
       /\ emb_outcome = "returned" <=> emb_attempts[Len(emb_attempts)] = "ok"
       /\ emb_outcome = "raised" <=> emb_attempts[Len(emb_attempts)] # "ok"
  /\ \A i \in 1..(Len(emb_attempts) - 1) : emb_attempts[i] \in Retriable
  /\ emb_pc = "sleep" =>
       /\ Len(emb_attempts) < 3
       /\ emb_attempts[Len(emb_attempts)] \in Retriable

\* an ingestion call gave up after its third failed attempt
C14_Witness ==
  /\ emb_caller = "get_embeddings" /\ emb_pc = "done"
  /\ emb_outcome = "raised" /\ Len(emb_attempts) = 3
  /\ emb_attempts[3] \in Retriable

\* C16: under every interleaving of concurrent search calls on one
\* MilvusManager, get_collection constructs the Collection handle once and
\* every search holds that handle; a search issues its query only after
\* its own load has completed; and once the handle exists no step of any
\* search changes the manager's state.
C16_LazyLoadOnce ==
  /\ [](/\ handles <= 1
        /\ (milvus_collection = "Collection") <=> (handles = 1)
        /\ \A c \in Coroutines :
             /\ co_pc[c] = "load" => co_collection[c] = 1
             /\ co_metric[c] # "none" =>
                  /\ co_loaded[c] /\ loaded
                  /\ co_collection[c] = 1)
  /\ [][handles >= 1 =>
          /\ handles' = handles
          /\ milvus_collection' = milvus_collection]_vars

\* one search has returned while another, started before the first one's
\* load completed, is still loading: both hold the one handle
C16_Witness ==
  /\ co_pc[1] = "load" /\ co_pc[2] = "done" /\ co_outcome[2] = "returned"
  /\ co_collection[1] = 1 /\ co_collection[2] = 1
  /\ ~co_loaded[1] /\ co_loaded[2]

\* C18: the metric a search passes equals the metric the index was
\* created with.
C18_OneMetric ==
  \A c \in Coroutines :
    co_metric[c] # "none" => co_metric[c] = index_metric

\* C19: create_embeddings returns one embedding per text of the request,
\* in the order of request.texts, whatever the batch size and however the
\* batches were split on running out of memory; while the loop runs, the
\* embeddings gathered are those of the texts before the next batch.
C19_OneEmbeddingPerText ==
  /\ srv_pc = "batching" =>
       all_embeddings =
         [i \in 1..Min(batch_i, Len(req_texts)) |->
            model_embedding(req_texts[i])]
  /\ srv_status = 200 =>
       /\ Len(all_embeddings) = Len(req_texts)
       /\ \A i \in 1..Len(req_texts) :
            all_embeddings[i] = model_embedding(req_texts[i])

\* three texts, not all the same, answered in two batches with an
\* out-of-memory split on the way
C19_Witness ==
  /\ srv_status = 200 /\ Len(req_texts) = 3 /\ batch_size = 2
  /\ splits >= 1 /\ req_texts[1] # req_texts[2]

\* C21: every recursive call process_batch makes after an out-of-memory
\* error is on a non-empty batch strictly smaller than its caller's.
C21_SplitShrinks ==
  \A call \in recursed : call[2] >= 1 /\ call[2] < call[1]

\* C22: chunk_text terminates for every text and every max_length >= 1;
\* it returns the empty list for the empty text; every chunk is between 1
\* and max_length characters long; and start strictly increases on every
\* iteration of the loop that goes round again.
C22_ChunkTextTerminates ==
  /\ [](ner_pc \in {"pipeline", "done"} /\ request_text = <<>>
          => chunks = <<>>)
  /\ [](\A i \in 1..Len(chunks) :
          Len(chunks[i][1]) >= 1 /\ Len(chunks[i][1]) <= max_length)
  /\ [][ner_pc = "chunk_text" /\ ner_pc' = "chunk_text" => start' > start]_vars
  /\ (ner_pc = "chunk_text" ~> ner_pc = "pipeline")

\* chunk_text returned after going round its loop more than once, with a
\* chunk that begins with a separator
C22_Witness ==
  /\ ner_pc = "pipeline" /\ Len(chunks) >= 3 /\ start > 0
  /\ chunks[2][1][1] \in Separators

\* C23: append_to_page called by the user who created a page, with the
\* page_id create_page returned, finds the page and returns success.
C23_CreatedPageAppendable ==
  (/\ pg_last.op = "append_to_page"
   /\ \E i \in 1..Len(pages) :
        /\ pages[i].id = pg_last.page_id
        /\ pages[i].user_id = StrOf(pg_last.user))
  => pg_last.status = 200

\* the page of another user a request names: by its _id for append_to_page,
\* by its id for get_page
ForeignPage ==
  \E i \in 1..Len(pages) :
    /\ pages[i].user_id # StrOf(pg_last.user)
    /\ \/ pg_last.op = "append_to_page"
          /\ pages[i]._id = ObjectId(pg_last.page_id)
       \/ pg_last.op = "get_page" /\ pages[i].id = pg_last.page_id

\* C24: pages are isolated per user. Every page a response carries belongs
\* to the user of the request; a request that names a page of another user
\* is answered 404; and a step changes only pages of the user who made the
\* request.
C24_PagesIsolated ==
  /\ [](\A r \in 1..Len(pg_last.body) :
          pg_last.body[r].user_id = StrOf(pg_last.user))
  /\ [](ForeignPage => pg_last.status = 404 /\ pg_last.body = <<>>)
  /\ [][\A i \in 1..Len(pages) :
          pages'[i] # pages[i] => pages[i].user_id = StrOf(pg_last'.user)]_vars

\* a user asked to append to the page of another user, a page its owner
\* has appended to, and was answered 404
C24_Witness ==
  /\ pg_last.op = "append_to_page" /\ pg_last.status = 404
  /\ \E i \in 1..Len(pages) :
       /\ pages[i]._id = ObjectId(pg_last.page_id)
       /\ pages[i].user_id # StrOf(pg_last.user)
       /\ Len(pages[i].query_answers) = 2

\* the rows of every note of a patient are in the Milvus collection
AllInserted(patient_id) ==
  \A n \in 1..patients_collection[patient_id].notes :
    <<patient_id, n>> \in vectors

\* C25: the ingestion job marks a patient processed only after every one of
\* its note batches was embedded and inserted; a patient with a failed batch
\* is not marked processed and stays eligible for a later run
C25_ProcessedMeansIngested ==
  [][job_pc = "mark" /\ patients_collection'[job_patient].processed
       => /\ AllInserted(job_patient)
          /\ \A i \in 0..MaxJobNotes : <<job_patient, i>> \notin job_errors]_vars

\* the note ids of a sequence of calls
Called(calls_made) == {calls_made[k] : k \in 1..Len(calls_made)}

\* C26: process_notes visits every note exactly once; a note that already
\* has stored entities is skipped unless recreate is set, with no NER call
\* and no database update for it; a failed extraction leaves the note's
\* stored entities unchanged and processing continues with the next note
C26_NotesVisitedOnce ==
  /\ [](/\ Len(progress) = ent_i
        /\ \A r \in 1..Len(progress) :
             progress[r].note_id = all_notes[r].note_id)
  /\ [](ent_pc = "done" => Len(progress) = Len(all_notes))
  /\ [](\A r \in 1..Len(progress) :
          LET note == all_notes[r]
          IN  /\ (~ent_recreate /\ EntitiesTruthy(note.entities_exist))
                   <=> progress[r].description = "Skipped"
              /\ progress[r].description = "Skipped"
                   => /\ note.note_id \notin Called(ner_calls)
                      /\ note.note_id \notin Called(db_updates)
              /\ progress[r].description \in {"Skipped", "Error"}
                   => stored_entities[note.note_id] = note.entities_exist)
  /\ [][Len(progress') > Len(progress)
          /\ progress'[Len(progress')].description = "Error"
        => stored_entities' = stored_entities /\ ent_pc' = "loop"]_vars

\* a run without recreate skipped a note with stored entities, and a note
\* whose extraction failed was followed by another note
C26_Witness ==
  /\ ent_pc = "done"
  /\ \E r \in 1..Len(progress) : progress[r].description = "Skipped"
  /\ \E r \in 1..Len(progress) :
       progress[r].description = "Error" /\ r < Len(progress)

\* C27: EHRDataManager is initialized only by a successful init_lazy_df: when
\* init_lazy_df raises, the manager stays uninitialized (a later
\* fetch_patient_events raises the not-initialized error and a later
\* init_lazy_df tries again)
C27_FailedInitLeavesUninitialized ==
  ehr_last.op = "init_lazy_df" /\ ehr_last.raised # "none"
    => lazy_df = NoFrame

\* positions of the events of a type
EventsOf(type) == {k \in 1..Len(events) : events[k].type = type}

\* C28: on the stream of the streaming generate_cot_answer endpoint all step
\* events come before the single answer event; the page_id event comes only
\* after the answer event and after the page was inserted; an error event is
\* the last event of the stream; no page is inserted when step or answer
\* generation fails
C28_StreamOrder ==
  /\ [](/\ Cardinality(EventsOf("answer")) <= 1
        /\ \A a \in EventsOf("answer"), k \in EventsOf("step") : k < a
        /\ \A a \in EventsOf("answer") :
             EventsOf("step") = 1..Len(stream_steps))
  /\ [](\A k \in EventsOf("page_id") :
          /\ \E a \in EventsOf("answer") : a < k
          /\ \E d \in 1..Len(pages) : StrOf(pages[d]._id) = events[k].content)
  /\ [](\A k \in EventsOf("error") : k = Len(events))
  /\ [][pages' # pages
          => stream_failed' = "none" /\ EventsOf("answer") # {}]_vars
  /\ [][stream_failed' \in {"generate_cot_steps", "generate_cot_answer"}
          => pages' = pages /\ EventsOf("page_id")' = {}]_vars

\* a stream with steps, an answer and a page id; and, on a later request, one
\* that ended with an error after its steps
C28_Witness ==
  /\ Len(pages) = 1
  /\ stream_failed = "generate_cot_answer"
  /\ EventsOf("step") # {}
  /\ EventsOf("error") # {}

\* the services called so far by the handler
Services == {calls[k].svc : k \in 1..Len(calls)}

\* the page the request names does not exist for the current user
NoPageForUser ==
  find_one([id |-> args.page_id, user_id |-> StrOf(current_user)]) = 0

====
